---- MODULE Spec2Model ----
(***************************************************************************)
(* Campus Air Quality Monitor - local web server (app.py).                 *)
(*                                                                         *)
(* The model has three parts:                                              *)
(*   - the main thread: module import, main() with its validation loop,    *)
(*     banner, try block (create_app, thread start, app.run) and the two   *)
(*     exception handlers;                                                 *)
(*   - the daemon thread running open_browser();                           *)
(*   - the five Flask view functions of create_app(), with                 *)
(*     send_from_directory computed segment by segment.                    *)
(* The environment is the file system (a required file may be absent at    *)
(* start or removed later), the operator (one interrupt signal, which      *)
(* arrives before the process has begun to exit) and the HTTP client.      *)
(***************************************************************************)
EXTENDS Integers, Sequences, FiniteSets, TLC

\* ------------------------------------------------------------------ bounds
\* longest request path, in segments
MaxSegs == 3

\* ------------------------------------------------------------- file system
\* paths are sequences of segments, relative to project_root
INDEX_HTML     == <<"pages", "index.html">>
DASHBOARD_HTML == <<"pages", "dashboard.html">>
DATA_MANAGER   == <<"js", "data-manager.js">>
LOCATIONS      == <<"data", "locations.json">>
\* the entry script itself, outside every served directory
APP_PY         == <<"app.py">>

required_files == <<INDEX_HTML, DASHBOARD_HTML, DATA_MANAGER, LOCATIONS>>

RequiredSet == {required_files[k] : k \in 1..Len(required_files)}

\* segments a client may put in a request path
Seg == {"dashboard", "js", "data", "..", "app.py", "data-manager.js"}

RECURSIVE SeqsUpTo(_)
SeqsUpTo(n) == IF n = 0 THEN {<<>>}
               ELSE LET S == SeqsUpTo(n - 1)
                    IN  S \cup {Append(s, x) : s \in {t \in S : Len(t) = n - 1}, x \in Seg}

URLs == SeqsUpTo(MaxSegs)

NoReq == <<"no request">>

\* ---------------------------------------------------------------- outputs
FLASK_REQUIRED == "Error: Flask is required to run this application."
MISSING_HEADER == "Error: Missing required files!"
BANNER         == "Campus Air Quality Monitor"
STARTING_MSG   == "Starting server on http://localhost:5000..."
FAREWELL       == "Server stopped by user"
ERROR_STARTING == "Error starting server"
BROWSER_OK     == "Browser opened successfully!"
BROWSER_FAIL   == "Could not open browser automatically"
FALLBACK       == "Please open http://localhost:5000 in your browser"

\* ----------------------------------------------------------------- state
VARIABLES
  pc,             \* position of the main thread
  state,          \* lifecycle state of the startup sequencer
  files,          \* files that exist under project_root
  i,              \* index of the validation loop over required_files
  missing_files,  \* main()'s list of missing paths
  out,            \* messages printed so far
  listening,      \* the server socket is bound to localhost:5000
  th,             \* browser_thread: "unstarted", "sleeping", "done", "killed"
  browser,        \* outcome of webbrowser.open: "none", "opened", "returned_false", "raised"
  interrupted,    \* the operator has sent the interrupt signal
  exit_via,       \* the way the process is ending
  exit_code,      \* process exit status, -1 while running
  req,            \* request path of the exchange on the open connection
  resp            \* response to it

vars == <<pc, state, files, i, missing_files, out, listening, th, browser,
          interrupted, exit_via, exit_code, req, resp>>


\* ------------------------------------------------------ lifecycle states
NOT_STARTED       == "NOT_STARTED"
VALIDATING        == "VALIDATING"
FAILED_VALIDATION == "FAILED_VALIDATION"
STARTING          == "STARTING"
SERVING           == "SERVING"
STOPPED           == "STOPPED"
CRASHED           == "CRASHED"

Terminals == {FAILED_VALIDATION, STOPPED, CRASHED}

NoResp == [status |-> 0, body |-> <<>>]

\* ------------------------------------------------------------ the router
NotFound == [status |-> 404, body |-> <<>>]

\* posixpath.normpath on a relative path: ".." removes the segment before
\* it, and stays when there is none to remove
RECURSIVE normpath(_, _)
normpath(segs, acc) ==
  IF segs = <<>> THEN acc
  ELSE IF Head(segs) = ".."
       THEN IF acc # <<>> /\ acc[Len(acc)] # ".."
            THEN normpath(Tail(segs), SubSeq(acc, 1, Len(acc) - 1))
            ELSE normpath(Tail(segs), Append(acc, ".."))
       ELSE normpath(Tail(segs), Append(acc, Head(segs)))

\* a normalised path that leaves the directory it is joined to
Escapes(p) == p # <<>> /\ p[1] = ".."

\* a safe_join that joins whatever it is given
safe_join_unchecked(directory, filename) == <<TRUE, normpath(directory \o filename, <<>>)>>

\* werkzeug's safe_join as send_from_directory uses it: <<ok, path>>
safe_join(directory, filename) ==
  LET p == normpath(filename, <<>>)
  IN  IF Escapes(p) THEN <<FALSE, <<>>>> ELSE <<TRUE, directory \o p>>

\* a send_from_directory that answers 403 to a rejected path
send_from_directory_403(directory, filename) ==
  LET j == safe_join(directory, filename)
  IN  IF ~j[1] THEN [status |-> 403, body |-> <<>>]
      ELSE IF j[2] \in files THEN [status |-> 200, body |-> j[2]]
      ELSE NotFound

\* flask.send_from_directory: the file's content (identified by the file
\* that holds it) with 200, or NotFound
send_from_directory(directory, filename) ==
  LET j == safe_join(directory, filename)
  IN  IF ~j[1] THEN NotFound
      ELSE IF j[2] \in files THEN [status |-> 200, body |-> j[2]]
      ELSE NotFound

index == send_from_directory(<<"pages">>, <<"index.html">>)

dashboard == send_from_directory(<<"pages">>, <<"dashboard.html">>)

\* a view that serves the file its parameter names
dashboard_by_location(location) == send_from_directory(<<"pages">>, location)

dashboard_with_location(location) == send_from_directory(<<"pages">>, <<"dashboard.html">>)

js_files(filename) == send_from_directory(<<"js">>, filename)

data_files(filename) == send_from_directory(<<"data">>, filename)

\* the route table of create_app; a path no rule matches is Flask's 404
Route(url) ==
  IF url = <<>> THEN index
  ELSE IF url = <<"dashboard">> THEN dashboard
  ELSE IF Len(url) > 1 /\ Head(url) = "dashboard" THEN dashboard_with_location(Tail(url))
  ELSE IF Len(url) > 1 /\ Head(url) = "js" THEN js_files(Tail(url))
  ELSE IF Len(url) > 1 /\ Head(url) = "data" THEN data_files(Tail(url))
  ELSE NotFound

\* --------------------------------------------------------- process exit
\* exits only when every required file is missing
AllMissing(m) == Len(m) = Len(required_files)

\* the test of line 80, `if missing_files:`
HasMissing(m) == m # <<>>

\* an exit status table that reports success after a start-up exception
ExitCodeOfLenient(via) ==
  IF via \in {"import_error", "missing_files"} THEN 1
  ELSE IF via = "kbd_uncaught" THEN 130 ELSE 0

\* exit status: sys.exit(1) at lines 20, 84 and 121; main() returning is 0;
\* an uncaught KeyboardInterrupt ends the interpreter with the SIGINT status
ExitCodeOf(via) ==
  IF via \in {"import_error", "missing_files", "exception"} THEN 1
  ELSE IF via \in {"kbd_caught", "run_returned"} THEN 0
  ELSE 130

\* lifecycle state the process ends in
Terminal(via) ==
  IF via = "missing_files" THEN FAILED_VALIDATION
  ELSE IF via \in {"import_error", "exception"} THEN CRASHED
  ELSE STOPPED

\* ------------------------------------------------------------------ Init
Init ==
  /\ pc = "import"
  /\ state = NOT_STARTED
  /\ files \in {S \cup {APP_PY} : S \in SUBSET RequiredSet}
  /\ i = 1
  /\ missing_files = <<>>
  /\ out = {}
  /\ listening = FALSE
  /\ th = "unstarted"
  /\ browser = "none"
  /\ interrupted = FALSE
  /\ exit_via = "none"
  /\ exit_code = -1
  /\ req = NoReq
  /\ resp = NoResp

\* ----------------------------------------------------------- main thread
\* the process heads for its end: what is printed on the way and the way out
Leave(msgs, via) ==
  /\ out' = out \cup msgs
  /\ exit_via' = via
  /\ pc' = "exiting"
  /\ listening' = FALSE
  /\ req' = NoReq
  /\ resp' = NoResp

\* the handler of line 119: print the error, sys.exit(1)
ExceptException == Leave({ERROR_STARTING}, "exception")

\* the handler of line 116: print the farewell, main() returns
ExceptKeyboardInterrupt == Leave({FAREWELL}, "kbd_caught")

\* lines 14-20: import flask, or print the instruction and sys.exit(1);
\* with flask imported, main() is entered
ImportFlask(available) ==
  /\ pc = "import"
  /\ IF available
     THEN /\ pc' = "validate"
          /\ state' = VALIDATING
          /\ UNCHANGED <<out, exit_via, listening, req, resp>>
     ELSE /\ Leave({FLASK_REQUIRED}, "import_error")
          /\ UNCHANGED state
  /\ UNCHANGED <<files, i, missing_files, th, browser, interrupted, exit_code>>

\* lines 75-78: one iteration of the loop over required_files
CheckFile ==
  /\ pc = "validate"
  /\ i <= Len(required_files)
  /\ missing_files' = IF required_files[i] \notin files
                      THEN Append(missing_files, required_files[i])
                      ELSE missing_files
  /\ i' = i + 1
  /\ UNCHANGED <<pc, state, files, out, listening, th, browser, interrupted,
                 exit_via, exit_code, req, resp>>

\* lines 80-84: with a missing file print the list and sys.exit(1);
\* otherwise go on to the banner
CheckMissing ==
  /\ pc = "validate"
  /\ i > Len(required_files)
  /\ IF HasMissing(missing_files)
     THEN /\ Leave({MISSING_HEADER}, "missing_files")
          /\ UNCHANGED state
     ELSE /\ pc' = "banner"
          /\ state' = STARTING
          /\ UNCHANGED <<out, exit_via, listening, req, resp>>
  /\ UNCHANGED <<files, i, missing_files, th, browser, interrupted, exit_code>>

\* lines 86-103: the banner, before the try block is entered
PrintBanner ==
  /\ pc = "banner"
  /\ out' = out \cup {BANNER}
  /\ pc' = "create"
  /\ UNCHANGED <<state, files, i, missing_files, listening, th, browser,
                 interrupted, exit_via, exit_code, req, resp>>

\* line 106: create_app(), which may raise
CreateApp(ok) ==
  /\ pc = "create"
  /\ IF ok
     THEN /\ pc' = "thread_start"
          /\ UNCHANGED <<out, exit_via, listening, req, resp>>
     ELSE ExceptException
  /\ UNCHANGED <<state, files, i, missing_files, th, browser, interrupted, exit_code>>

\* lines 109-110: the daemon thread is created and started, which may raise
StartThread(ok) ==
  /\ pc = "thread_start"
  /\ IF ok
     THEN /\ pc' = "run"
          /\ th' = "sleeping"
          /\ UNCHANGED <<out, exit_via, listening, req, resp>>
     ELSE /\ ExceptException
          /\ UNCHANGED th
  /\ UNCHANGED <<state, files, i, missing_files, browser, interrupted, exit_code>>

\* a server start that goes on to serve without binding the port
StartServerUnbound(ok) ==
  /\ pc = "run"
  /\ IF ok
     THEN /\ out' = out \cup {STARTING_MSG}
          /\ pc' = "serving"
          /\ state' = SERVING
          /\ UNCHANGED <<listening, exit_via, req, resp>>
     ELSE /\ Leave({STARTING_MSG, ERROR_STARTING}, "exception")
          /\ UNCHANGED state
  /\ UNCHANGED <<files, i, missing_files, th, browser, interrupted, exit_code>>

\* lines 113-114: print, then app.run binds localhost:5000 and serves, or
\* raises (the port is taken)
StartServer(ok) ==
  /\ pc = "run"
  /\ IF ok
     THEN /\ out' = out \cup {STARTING_MSG}
          /\ pc' = "serving"
          /\ state' = SERVING
          /\ listening' = TRUE
          /\ UNCHANGED <<exit_via, req, resp>>
     ELSE /\ Leave({STARTING_MSG, ERROR_STARTING}, "exception")
          /\ UNCHANGED state
  /\ UNCHANGED <<files, i, missing_files, th, browser, interrupted, exit_code>>

\* line 114: app.run raises while the server is serving
ServeCrash ==
  /\ pc = "serving"
  /\ ExceptException
  /\ UNCHANGED <<state, files, i, missing_files, th, browser, interrupted, exit_code>>

\* a process end that leaves the daemon thread running
TerminateLeavingThread ==
  /\ pc = "exiting"
  /\ pc' = "done"
  /\ exit_code' = ExitCodeOf(exit_via)
  /\ state' = Terminal(exit_via)
  /\ UNCHANGED <<files, i, missing_files, out, listening, th, browser, interrupted,
                 exit_via, req, resp>>

\* the interpreter ends: the exit status is set and the daemon thread, if
\* it is still asleep, ends with the process
Terminate ==
  /\ pc = "exiting"
  /\ pc' = "done"
  /\ exit_code' = ExitCodeOf(exit_via)
  /\ state' = Terminal(exit_via)
  /\ th' = IF th = "sleeping" THEN "killed" ELSE th
  /\ UNCHANGED <<files, i, missing_files, out, listening, browser, interrupted,
                 exit_via, req, resp>>

\* ------------------------------------------------------------- operator
\* the interrupt signal reaches the main thread outside the try block:
\* the KeyboardInterrupt is not caught
InterruptOutsideTry ==
  /\ ~interrupted
  /\ pc \in {"import", "validate", "banner"}
  /\ interrupted' = TRUE
  /\ Leave({}, "kbd_uncaught")
  /\ UNCHANGED <<state, files, i, missing_files, th, browser, exit_code>>

\* the signal reaches the main thread in the try block, before app.run serves
InterruptInTry ==
  /\ ~interrupted
  /\ pc \in {"create", "thread_start", "run"}
  /\ interrupted' = TRUE
  /\ ExceptKeyboardInterrupt
  /\ UNCHANGED <<state, files, i, missing_files, th, browser, exit_code>>

\* the signal arrives while app.run serves: the KeyboardInterrupt either
\* reaches main(), or the server loop absorbs it and app.run returns
InterruptServing(absorbed) ==
  /\ ~interrupted
  /\ pc = "serving"
  /\ interrupted' = TRUE
  /\ IF absorbed THEN Leave({}, "run_returned") ELSE ExceptKeyboardInterrupt
  /\ UNCHANGED <<state, files, i, missing_files, th, browser, exit_code>>

\* -------------------------------------------------------- browser thread
\* what open_browser prints for an outcome of webbrowser.open
BrowserOutput(outcome) ==
  IF outcome = "raised" THEN {BROWSER_FAIL, FALLBACK} ELSE {BROWSER_OK}

\* lines 56-64: after the sleep, webbrowser.open opens the browser, returns
\* False, or raises
OpenBrowser(outcome) ==
  /\ th = "sleeping"
  /\ th' = "done"
  /\ browser' = outcome
  /\ out' = out \cup BrowserOutput(outcome)
  /\ UNCHANGED <<pc, state, files, i, missing_files, listening, interrupted,
                 exit_via, exit_code, req, resp>>

\* ------------------------------------------------------------ HTTP client
\* a client connects and its GET request is routed and answered; the
\* server handles one exchange at a time
HandleRequest(url) ==
  /\ pc = "serving"
  /\ listening
  /\ req = NoReq
  /\ req' = url
  /\ resp' = Route(url)
  /\ UNCHANGED <<pc, state, files, i, missing_files, out, listening, th, browser,
                 interrupted, exit_via, exit_code>>

\* the client has read the response and the connection is closed
CloseConnection ==
  /\ pc = "serving"
  /\ req # NoReq
  /\ req' = NoReq
  /\ resp' = NoResp
  /\ UNCHANGED <<pc, state, files, i, missing_files, out, listening, th, browser,
                 interrupted, exit_via, exit_code>>

\* ------------------------------------------------------------ file system
\* a file is removed while the process runs
RemoveFile(f) ==
  /\ pc # "done"
  /\ f \in files
  /\ files' = files \ {f}
  /\ UNCHANGED <<pc, state, i, missing_files, out, listening, th, browser,
                 interrupted, exit_via, exit_code, req, resp>>

\* ------------------------------------------------------------------ Next
MainThread ==
  \/ \E available \in BOOLEAN : ImportFlask(available)
  \/ CheckFile
  \/ CheckMissing
  \/ PrintBanner
  \/ \E ok \in BOOLEAN : CreateApp(ok)
  \/ \E ok \in BOOLEAN : StartThread(ok)
  \/ \E ok \in BOOLEAN : StartServer(ok)
  \/ Terminate

BrowserThread ==
  \E outcome \in {"opened", "returned_false", "raised"} : OpenBrowser(outcome)

Environment ==
  \/ ServeCrash
  \/ InterruptOutsideTry
  \/ InterruptInTry
  \/ \E absorbed \in BOOLEAN : InterruptServing(absorbed)
  \/ \E url \in URLs : HandleRequest(url)
  \/ CloseConnection
  \/ \E f \in RequiredSet : RemoveFile(f)

Next == MainThread \/ BrowserThread \/ Environment

Spec == Init /\ [][Next]_vars

\* the main thread and the browser thread are both scheduled
FairSpec == Spec /\ WF_vars(MainThread) /\ WF_vars(BrowserThread)

\* ================================================================ claims
\* the step in which a request is answered
Handled == req = NoReq /\ req' # NoReq

\* names minus ".." among the first k segments of p
RECURSIVE Depth(_, _)
Depth(p, k) == IF k = 0 THEN 0
               ELSE Depth(p, k - 1) + (IF p[k] = ".." THEN -1 ELSE 1)

\* p climbs above the directory it is relative to
LeavesBase(p) == \E k \in 1..Len(p) : Depth(p, k) < 0

IsDashboardLoc(url) == Len(url) > 1 /\ Head(url) = "dashboard"

IsAsset(url) == Len(url) > 1 /\ Head(url) \in {"js", "data"}

\* what the process itself holds; the file system is the environment's
processVars == <<pc, state, i, missing_files, out, listening, th, browser,
                 interrupted, exit_via, exit_code, req, resp>>

C2_InterruptFarewell ==
  pc = "done" /\ exit_via \in {"kbd_caught", "run_returned"} =>
    FAREWELL \in out /\ exit_code = 0

\* ---------------------------------------------------------------- C3
\* C3 (as stated): the exit code is 1 exactly when required files were
\* found missing or an exception was raised while creating or starting the
\* server, and 0 exactly when the server ended by normal or interrupted
\* shutdown; the exception's message is printed and nothing is left serving.
C3_ExitCodes ==
  pc = "done" =>
    /\ exit_code = 1 <=> exit_via \in {"missing_files", "exception"}
    /\ exit_code = 0 <=> exit_via \in {"kbd_caught", "run_returned"}
    /\ exit_via = "exception" => ERROR_STARTING \in out /\ ~listening

\* C3 (amended): as stated, with the failed import of Flask as a third
\* cause of exit code 1.
C3_ExitCodesAmended ==
  pc = "done" =>
    /\ exit_code = 1 <=> exit_via \in {"import_error", "missing_files", "exception"}
    /\ exit_code = 0 <=> exit_via \in {"kbd_caught", "run_returned"}
    /\ exit_via = "exception" => ERROR_STARTING \in out /\ ~listening

C3_Witness ==
  /\ pc = "done"
  /\ exit_via = "exception"
  /\ STARTING_MSG \in out
  /\ exit_code = 1

SpecTransitions ==
  { <<NOT_STARTED, VALIDATING>>, <<VALIDATING, FAILED_VALIDATION>>,
    <<VALIDATING, STARTING>>, <<STARTING, SERVING>>,
    <<SERVING, STOPPED>>, <<SERVING, CRASHED>> }

CodeTransitions ==
  SpecTransitions \cup
  { <<NOT_STARTED, CRASHED>>, <<NOT_STARTED, STOPPED>>, <<VALIDATING, STOPPED>>,
    <<STARTING, STOPPED>>, <<STARTING, CRASHED>> }

\* C5 (as stated): the lifecycle changes only along NOT_STARTED ->
\* VALIDATING -> FAILED_VALIDATION or NOT_STARTED -> VALIDATING -> STARTING
\* -> SERVING -> STOPPED or CRASHED, and in a terminal state the process
\* does nothing more.
C5_Lifecycle ==
  [][ /\ state' # state => <<state, state'>> \in SpecTransitions
      /\ state \in Terminals => UNCHANGED processVars ]_vars

\* C5 (amended): as stated, with the further transitions NOT_STARTED ->
\* CRASHED (Flask cannot be imported), STARTING -> CRASHED (creating or
\* starting the server raises), and NOT_STARTED, VALIDATING or STARTING ->
\* STOPPED (operator interrupt before the server serves).
C5_LifecycleAmended ==
  [][ /\ state' # state => <<state, state'>> \in CodeTransitions
      /\ state \in Terminals => UNCHANGED processVars ]_vars

C5_Witness ==
  /\ state = CRASHED
  /\ exit_via = "exception"
  /\ th = "killed"
  /\ STARTING_MSG \in out

\* ---------------------------------------------------------------- C6
\* C6: whenever webbrowser.open has failed, by raising or by returning
\* False, the fallback instruction has been printed, and a server that is
\* serving is still listening.
C6_BrowserFailureFallback ==
  /\ browser \in {"raised", "returned_false"} => FALLBACK \in out
  /\ browser # "none" /\ pc = "serving" => listening

\* ---------------------------------------------------------------- C7
\* C7 (as stated): a request under /js or /data whose filename climbs out of
\* the directory, and likewise any /dashboard/<location> request, is
\* answered 404 or 400 and never with a file outside the route's directory.
C7_TraversalRejected ==
  [][ Handled /\ ((IsAsset(req') /\ LeavesBase(Tail(req'))) \/ IsDashboardLoc(req')) =>
        /\ resp'.status \in {400, 404}
        /\ resp'.body = <<>> ]_vars

\* C7 (amended): a request under /js or /data whose filename climbs out of
\* the directory is answered 404; every response under /js/, /data/ or
\* /dashboard/ carries no file or a file of the route's own directory, and
\* under /dashboard/ that file is pages/dashboard.html, answered 200.
C7_NoEscape ==
  [][ Handled =>
        /\ IsAsset(req') /\ LeavesBase(Tail(req')) =>
             resp'.status = 404 /\ resp'.body = <<>>
        /\ IsAsset(req') /\ resp'.body # <<>> => Head(resp'.body) = Head(req')
        /\ IsDashboardLoc(req') /\ resp'.body # <<>> =>
             resp'.body = DASHBOARD_HTML /\ resp'.status = 200 ]_vars

C7_Witness ==
  /\ req = <<"js", "..", "app.py">>
  /\ APP_PY \in files
  /\ resp = NotFound

\* ---------------------------------------------------------------- C8
\* C8: the response to GET /dashboard/X, for every non-empty X of one or
\* more segments, is the response GET /dashboard gets on the same files.
C8_LocationIgnored ==
  [][ Handled /\ IsDashboardLoc(req') => resp' = Route(<<"dashboard">>) ]_vars

C8_Witness ==
  /\ req = <<"dashboard", "..", "app.py">>
  /\ resp = [status |-> 200, body |-> DASHBOARD_HTML]

\* ---------------------------------------------------------------- C9
\* the file a request path stands for, <<>> when it stands for none
ResolvedFile(url) ==
  IF url = <<>> THEN INDEX_HTML
  ELSE IF Head(url) = "dashboard" THEN DASHBOARD_HTML
  ELSE IF IsAsset(url) /\ ~LeavesBase(Tail(url))
       THEN <<Head(url)>> \o normpath(Tail(url), <<>>)
       ELSE <<>>

C10_BrowserAfterBind ==
  [][ browser' = "opened" /\ browser # "opened" => listening /\ browser = "none" ]_vars

====
